---- MODULE Spec2Model ----
(***************************************************************************)
(* Client-side state/view synchronisation layer of the Zoological Society  *)
(* archive (src/app.v2.js): the cache of consoles and games, the           *)
(* filter -> sort -> paginate pipeline, the request wrapper and the        *)
(* async handlers that refresh the cache after a mutation.                 *)
(*                                                                         *)
(* JavaScript strings are modelled as sequences of one-character strings,  *)
(* so that toUpperCase, startsWith, split, trim and localeCompare are      *)
(* computed and not assumed.  null is "none" for string cells, 0 for ids   *)
(* (ids are server-assigned and positive) and <<>> for object cells.       *)
(***************************************************************************)
EXTENDS Integers, Sequences, FiniteSets, Bags, TLC

\* ------------------------------------------------------------------------
\* Strings
\* ------------------------------------------------------------------------

\* The letters the modelled titles and genres are written with.
LowerCase == <<"a", "b", "p", "r">>
UpperCase == <<"A", "B", "P", "R">>
Digits == {"0", "1", "2", "3", "4", "5", "6", "7", "8", "9"}
Blank == " "
Comma == ","

IsLower(c) == \E i \in DOMAIN LowerCase : LowerCase[i] = c
IsUpper(c) == \E i \in DOMAIN UpperCase : UpperCase[i] = c
LetterIndex(c) ==
  CHOOSE i \in DOMAIN LowerCase : LowerCase[i] = c \/ UpperCase[i] = c

\* String.prototype.toUpperCase, character by character.
ToUpperChar(c) == IF IsLower(c) THEN UpperCase[LetterIndex(c)] ELSE c
ToUpperCase(s) == [i \in DOMAIN s |-> ToUpperChar(s[i])]

\* String.prototype.startsWith
StartsWith(s, p) == Len(p) <= Len(s) /\ SubSeq(s, 1, Len(p)) = p

\* /^[0-9]/.test(title)
StartsWithDigit(s) == Len(s) > 0 /\ s[1] \in Digits

\* String.prototype.trim (the blank is the only white space modelled).
RECURSIVE TrimLeft(_)
TrimLeft(s) ==
  IF s # <<>> /\ Head(s) = Blank THEN TrimLeft(Tail(s)) ELSE s

RECURSIVE TrimRight(_)
TrimRight(s) ==
  IF s # <<>> /\ s[Len(s)] = Blank
    THEN TrimRight(SubSeq(s, 1, Len(s) - 1))
    ELSE s

Trim(s) == TrimRight(TrimLeft(s))

\* String.prototype.split(","): the pieces between commas, empty ones kept.
RECURSIVE SplitFrom(_, _)
SplitFrom(s, cur) ==
  IF s = <<>> THEN <<cur>>
  ELSE IF Head(s) = Comma THEN <<cur>> \o SplitFrom(Tail(s), <<>>)
  ELSE SplitFrom(Tail(s), Append(cur, Head(s)))

SplitComma(s) == SplitFrom(s, <<>>)

\* Collation weights of String.prototype.localeCompare (default locale, ICU
\* root collation): blank and punctuation sort before digits, digits before
\* letters; letters differ at the primary level by the letter alone and at
\* the tertiary level by case, lower case first.
PrimaryWeight(c) ==
  IF c = Blank THEN 1
  ELSE IF c = Comma THEN 2
  ELSE IF c \in Digits
    THEN 10 + (CHOOSE d \in 0..9 : ToString(d) = c)
  ELSE 20 + LetterIndex(c)

TertiaryWeight(c) == IF IsUpper(c) THEN 1 ELSE 0

\* Lexicographic comparison of two sequences of weights: -1, 0 or 1.
RECURSIVE CompareWeights(_, _)
CompareWeights(a, b) ==
  IF a = <<>> /\ b = <<>> THEN 0
  ELSE IF a = <<>> THEN -1
  ELSE IF b = <<>> THEN 1
  ELSE IF Head(a) < Head(b) THEN -1
  ELSE IF Head(a) > Head(b) THEN 1
  ELSE CompareWeights(Tail(a), Tail(b))

\* the collation keys of a string
PrimaryKey(s) == [i \in DOMAIN s |-> PrimaryWeight(s[i])]
TertiaryKey(s) == [i \in DOMAIN s |-> TertiaryWeight(s[i])]

ComparePrimary(a, b) == CompareWeights(PrimaryKey(a), PrimaryKey(b))

\* String.prototype.localeCompare
LocaleCompare(a, b) ==
  IF ComparePrimary(a, b) # 0
    THEN ComparePrimary(a, b)
    ELSE CompareWeights(TertiaryKey(a), TertiaryKey(b))

\* ------------------------------------------------------------------------
\* Entities
\* ------------------------------------------------------------------------

\* A game as the server returns it (the fields the controller reads).
Game(i, c, t, g) == [id |-> i, console_id |-> c, title |-> t, genre |-> g]

\* The rows of the server's games table.  Console 1 has two games whose
\* titles differ in case ("Ba", "ab"), with genre strings that have blanks
\* around tags and a tag that is a prefix of another; console 2 has one game,
\* its title starts with a digit and it has no genre.
GameRows ==
  << Game(1, 1, <<"B", "a">>, <<"A", ",", " ", "R", "P", " ">>),
     Game(2, 1, <<"a", "b">>, <<"R">>),
     Game(3, 2, <<"7", "b">>, <<>>) >>

GameIds == {GameRows[i].id : i \in DOMAIN GameRows}

\* A library large enough to fill pages: MaxGames more rows of console 1,
\* the k-th with id 3 + k, without genre, its title the two digits of
\* 99 - k (so the server, listing by id, lists them by falling title).
MaxGames == 45
DigitChars == <<"0", "1", "2", "3", "4", "5", "6", "7", "8", "9">>
LibraryRow(k) ==
  Game(3 + k, 1, <<DigitChars[((99 - k) \div 10) + 1], DigitChars[((99 - k) % 10) + 1]>>, <<>>)
LibraryIds(n) == {3 + k : k \in 1..n}

\* Rows of console 1 that try the filters: titles that start with a letter
\* in upper case, in lower case, with another letter, a digit or a blank, or
\* hold the letter further on; genre strings with one tag, several tags,
\* blanks around tags, a tag that is a prefix of or contains another, empty
\* tags only, and no genre.
ShelfRows ==
  << Game(101, 1, <<"A", "b">>, <<"R">>),
     Game(102, 1, <<"a", "b">>, <<"A", ",", " ", "R", "P", " ">>),
     Game(103, 1, <<"B", "a">>, <<"R", "P">>),
     Game(104, 1, <<"7", "a">>, <<>>),
     Game(105, 1, <<" ", "a">>, <<"A", "R">>),
     Game(106, 1, <<"b", "A">>, <<",">>),
     Game(107, 1, <<"a">>, <<" ", "R", " ", ",", "A">>) >>
ShelfIds == {ShelfRows[i].id : i \in DOMAIN ShelfRows}

GameById(i) ==
  IF i \in GameIds
    THEN GameRows[CHOOSE k \in DOMAIN GameRows : GameRows[k].id = i]
  ELSE IF i \in ShelfIds
    THEN ShelfRows[CHOOSE k \in DOMAIN ShelfRows : ShelfRows[k].id = i]
  ELSE LibraryRow(i - 3)
ConsoleIds == {GameRows[i].console_id : i \in DOMAIN GameRows}

\* The order in which the server lists rows: by id, which is neither the
\* title order of console 1 nor that of all rows.
ServerOrder ==
  <<1, 2, 3>> \o [k \in 1..MaxGames |-> 3 + k]
              \o [k \in DOMAIN ShelfRows |-> ShelfRows[k].id]

\* The games whose status flag is set on the server, per status.
Statuses == {"favorite", "playing"}
StatusRows(status) == IF status = "favorite" THEN {1, 3} ELSE {}

\* The alphabetical index: "0-9" and the letters (one of them modelled).
AlphaLetters == {"A"}
AlphaFilters == {"0-9"} \cup AlphaLetters

\* The rows with an id in `keep`, in the order `order`.
SelectIds(order, keep) ==
  LET Kept(i) == i \in keep
      ids == SelectSeq(order, Kept)
  IN [k \in DOMAIN ids |-> GameById(ids[k])]

\* ------------------------------------------------------------------------
\* Filter -> sort -> paginate (renderGamesForCurrentConsole)
\* ------------------------------------------------------------------------

PAGE_SIZE == 20

\* Array.prototype.slice(start, end), 0-based, end exclusive: a negative
\* index counts from the end, and both are brought into 0 .. length.
SliceIndex(i, len) ==
  IF i < 0 THEN (IF len + i < 0 THEN 0 ELSE len + i)
  ELSE IF i > len THEN len ELSE i

Slice(s, start, end) ==
  SubSeq(s, SliceIndex(start, Len(s)) + 1, SliceIndex(end, Len(s)))

\* Array.prototype.findIndex on the id: 0-based, -1 when absent.
FindIndexById(s, gid) ==
  IF \E i \in DOMAIN s : s[i].id = gid
    THEN (CHOOSE i \in DOMAIN s : s[i].id = gid /\ \A j \in 1..(i - 1) : s[j].id # gid) - 1
    ELSE -1

\* Array.prototype.sort((a, b) => a.title.localeCompare(b.title)): the sort is
\* stable, elements that compare equal keep their order.
RECURSIVE InsertByTitle(_, _)
InsertByTitle(g, s) ==
  IF s = <<>> THEN <<g>>
  ELSE IF LocaleCompare(Head(s).title, g.title) <= 0
    THEN <<Head(s)>> \o InsertByTitle(g, Tail(s))
    ELSE <<g>> \o s

\* The elements of s are inserted one by one into acc, which is sorted
\* at every step (the rest and the sorted part are computed once a step).
RECURSIVE SortInto(_, _)
SortInto(s, acc) ==
  IF s = <<>> THEN acc
  ELSE CHOOSE sorted \in {SortInto(Tail(rest), InsertByTitle(Head(rest), done)) :
                            rest \in {s}, done \in {acc}} : TRUE

SortByTitle(s) == SortInto(s, <<>>)

\* gamesByConsole[consoleId] || []
CachedGames(gbc, cid) == IF cid \in DOMAIN gbc THEN gbc[cid] ELSE <<>>

\* An alphabetical filter test that compares the title as typed.
AlphaMatchesAsTyped(g, af) ==
  IF af = "0-9"
    THEN StartsWithDigit(g.title)
    ELSE StartsWith(g.title, <<af>>)

\* The alphabetical filter test of one game.
AlphaMatches(g, af) ==
  IF af = "0-9"
    THEN StartsWithDigit(g.title)
    ELSE StartsWith(ToUpperCase(g.title), <<af>>)

\* A genre filter test that compares the tags untrimmed.
GenreMatchesUntrimmed(g, agf) ==
  /\ g.genre # <<>>
  /\ \E i \in DOMAIN SplitComma(g.genre) : SplitComma(g.genre)[i] = agf

\* The genre filter test of one game: some comma-split, trimmed tag equals
\* the active genre; a game without genre never matches.
GenreMatches(g, agf) ==
  /\ g.genre # <<>>
  /\ \E i \in DOMAIN SplitComma(g.genre) : Trim(SplitComma(g.genre)[i]) = agf

ApplyAlpha(games, af) ==
  LET P(g) == AlphaMatches(g, af) IN SelectSeq(games, P)

ApplyGenre(games, agf) ==
  LET P(g) == GenreMatches(g, agf) IN SelectSeq(games, P)

\* The base list of a render and whether the render returns before it has
\* one ("Select a console to see its games.").
RenderBase(asf, sfg, ccid, gbc) ==
  IF asf # "none" /\ Len(sfg) > 0 THEN [early |-> FALSE, games |-> sfg]
  ELSE IF ccid = 0 THEN [early |-> TRUE, games |-> <<>>]
  ELSE [early |-> FALSE, games |-> SortByTitle(CachedGames(gbc, ccid))]

\* The list a render paginates: the base list, narrowed by the alphabetical
\* and the genre filter when no status filter is active.
RenderGames(asf, sfg, ccid, gbc, af, agf) ==
  LET base == RenderBase(asf, sfg, ccid, gbc).games
      alpha == IF asf = "none" /\ af # "none" THEN ApplyAlpha(base, af) ELSE base
  IN IF asf = "none" /\ agf # <<>> THEN ApplyGenre(alpha, agf) ELSE alpha

\* Math.ceil(n / PAGE_SIZE)
TotalPages(n) == (n + PAGE_SIZE - 1) \div PAGE_SIZE

\* A page past the last one is answered by the page before it.
ClampPageStepBack(page, n) == IF page > TotalPages(n) THEN page - 1 ELSE page

\* if (currentPage > totalPages) currentPage = 1
ClampPage(page, n) == IF page > TotalPages(n) THEN 1 ELSE page

PageGames(games, page) ==
  Slice(games, (page - 1) * PAGE_SIZE, (page - 1) * PAGE_SIZE + PAGE_SIZE)

\* The buttons under the cards: none when the page is empty ("No games
\* found."), else Previous after page 1 and Next before the last page.
Pagination(pageGames, page, totalPages) ==
  IF pageGames = <<>> THEN [prev |-> FALSE, next |-> FALSE]
  ELSE [prev |-> page > 1, next |-> page < totalPages]

\* ------------------------------------------------------------------------
\* State
\* ------------------------------------------------------------------------

\* A handler that sends a request is started only while fewer than this many
\* requests are in flight (one more in the specifications of overlapping
\* handlers).
MaxInFlight == 1

VARIABLES
  consoles,             \* ids of the cached consoles
  gamesByConsole,       \* consoleId -> array of games
  currentConsoleId,     \* 0 is null
  currentGameDetail,    \* the game of the detail modal, NoGame is null
  activeFilter,         \* "none", "0-9" or a letter
  activeGenreFilter,    \* a tag, <<>> is null
  activeStatusFilter,   \* "none" or a status
  statusFilteredGames,  \* the last by-status response
  currentPage,
  isLoading,
  currentView,          \* "homepage", "console" or "search"
  archiveStats,
  consoleStats,         \* NoStats is null
  genres,               \* the tags of the genre list
  currentGameIndex,
  currentGamesList,
  detailOpen,           \* #modal-game-detail is shown
  storage,              \* localStorage: archive_currentView, archive_currentConsoleId
  listed,               \* the list the last render paginated
  gameList,             \* the cards of #game-list
  pager,                \* the Previous and Next buttons of #game-list
  notices,              \* the toasts shown by the last step, by type
  srvConsoles,          \* the server's consoles
  srvGames,             \* the server's games
  tasks,                \* the suspended async functions, a bag
  overlap,              \* the bound on requests in flight of this run
  last,                 \* the handler step taken last and how its request ended
  before                \* the state a reload or a search was started from

cacheVars == <<consoles, gamesByConsole, consoleStats, archiveStats>>
filterVars == <<activeFilter, activeGenreFilter, activeStatusFilter, statusFilteredGames>>
detailVars == <<currentGameDetail, currentGameIndex, currentGamesList, detailOpen>>
viewVars == <<currentView, currentConsoleId, storage>>
domVars == <<listed, gameList, pager, currentPage>>
srvVars == <<srvConsoles, srvGames>>

vars == <<cacheVars, filterVars, detailVars, viewVars, domVars, srvVars,
          genres, isLoading, notices, tasks, overlap, last, before>>

NoGame == Game(0, 0, <<>>, <<>>)
NoStats == [console |-> 0, games |-> 0]
NoNotice == [error |-> 0, success |-> 0, info |-> 0, warning |-> 0]
NoPager == [prev |-> FALSE, next |-> FALSE]

\* showToast(message, type), counted by type.
Toast(n, type) == [n EXCEPT ![type] = @ + 1]

\* A suspended async function: the handler, the request it awaits, and the
\* arguments and locals it resumes with.
Task(op, pc, cid, gid, arg) ==
  [op |-> op, pc |-> pc, cid |-> cid, gid |-> gid, arg |-> arg]

\* What a form holds when its save button is clicked: the checked radio
\* button and the text of its inputs; NoForm for a step without a form.
NoForm == [kind |-> "", text |-> <<>>, more |-> <<>>]

Step(op, pc, ok) == [op |-> op, pc |-> pc, ok |-> ok, form |-> NoForm]

\* The view, the consoles, the selection, the filters and the list at one
\* moment.
Snapshot ==
  [view |-> currentView, consoles |-> consoles,
   console |-> currentConsoleId, filter |-> activeFilter,
   genre |-> activeGenreFilter, status |-> activeStatusFilter,
   games |-> statusFilteredGames, page |-> currentPage, listed |-> listed]

\* Every step records itself in `last`; the bound of the run and the
\* remembered state stay.
Did(op, pc, ok) ==
  last' = Step(op, pc, ok) /\ overlap' = overlap /\ before' = before

InFlight == BagCardinality(tasks)
CanStart == InFlight < overlap
Suspend(t) == tasks (+) SetToBag({t})
Resume(t) == tasks (-) SetToBag({t})
Awaiting(op, pc) == {t \in BagToSet(tasks) : t.op = op /\ t.pc = pc}

\* ------------------------------------------------------------------------
\* The remote service
\* ------------------------------------------------------------------------

SrvGamesOf(cid) == {g \in srvGames : GameById(g).console_id = cid}

\* GET /consoles/{id}/games
GetGames(cid) == SelectIds(ServerOrder, SrvGamesOf(cid))

\* GET /consoles/{id}/stats
GetConsoleStats(cid) == [console |-> cid, games |-> Cardinality(SrvGamesOf(cid))]

\* GET /stats
GetStats == [consoles |-> Cardinality(srvConsoles), games |-> Cardinality(srvGames)]

\* GET /consoles/{id}/games/by-status?status= and GET /games/by-status?status=
GetByStatus(cid, status) ==
  SelectIds(ServerOrder,
            IF cid = 0 THEN srvGames \cap StatusRows(status)
                       ELSE SrvGamesOf(cid) \cap StatusRows(status))

\* A request on a console succeeds only while the server has the console;
\* any request can fail (transport failure, non-2xx status).
ConsoleResponds(cid, ok) == ok => cid \in srvConsoles
GameResponds(gid, ok) == ok => gid \in srvGames

\* ------------------------------------------------------------------------
\* Rendering
\* ------------------------------------------------------------------------

\* renderGamesForCurrentConsole() on the state the step leaves, with the
\* page the step asks for.
Render(page) ==
  LET base == RenderBase(activeStatusFilter', statusFilteredGames',
                         currentConsoleId', gamesByConsole')
      games == RenderGames(activeStatusFilter', statusFilteredGames',
                           currentConsoleId', gamesByConsole',
                           activeFilter', activeGenreFilter')
  IN IF base.early
       THEN /\ listed' = <<>> /\ gameList' = <<>> /\ currentPage' = page
            /\ pager' = NoPager
       ELSE /\ listed' = games
            /\ currentPage' = ClampPage(page, Len(listed'))
            /\ gameList' = PageGames(listed', currentPage')
            /\ pager' = Pagination(gameList', currentPage', TotalPages(Len(listed')))

\* extractGenres(): the trimmed, non-empty tags of the current console's cache.
ExtractGenres(ccid, gbc) ==
  IF ccid = 0 THEN {}
  ELSE LET games == CachedGames(gbc, ccid)
       IN UNION {{Trim(SplitComma(games[i].genre)[k]) :
                     k \in DOMAIN SplitComma(games[i].genre)} :
                   i \in DOMAIN games} \ {<<>>}

\* ------------------------------------------------------------------------
\* apiCall and the fire-and-forget loaders
\* ------------------------------------------------------------------------

\* apiCall's catch: one error toast for a failed request, none otherwise.
ApiNotice(ok) == IF ok THEN NoNotice ELSE Toast(NoNotice, "error")

\* After a step isLoading is what the last setLoading call left: true when
\* the step ended by starting a request, false when it ended in apiCall's
\* finally.
LoadingAfter(started) == started # {}

RECURSIVE SuspendAll(_, _)
SuspendAll(bag, ts) ==
  IF ts = {} THEN bag
  ELSE LET t == CHOOSE x \in ts : TRUE
       IN SuspendAll(bag (+) SetToBag({t}), ts \ {t})

LoadStatsTask == Task("loadStats", "stats", 0, 0, "")
RecentlyViewedTask == Task("loadRecentlyViewed", "list", 0, 0, "")
LastAddedTask == Task("loadLastAdded", "list", 0, 0, "")
RecordViewTask(gid) == Task("recordGameView", "view", 0, gid, "")

\* loadStats(): archiveStats is replaced by the response; a failure is logged.
LoadStatsResolved ==
  \E t \in Awaiting("loadStats", "stats"), ok \in BOOLEAN :
    /\ archiveStats' = IF ok THEN GetStats ELSE archiveStats
    /\ tasks' = Resume(t)
    /\ isLoading' = FALSE
    /\ notices' = ApiNotice(ok)
    /\ Did(t.op, t.pc, ok)
    /\ UNCHANGED <<consoles, gamesByConsole, consoleStats, filterVars, detailVars,
                   viewVars, domVars, srvVars, genres>>

\* loadRecentlyViewed(), loadLastAdded(), recordGameView(): the response
\* only fills a homepage list or is dropped.
BackgroundResolved ==
  \E t \in BagToSet(tasks), ok \in BOOLEAN :
    /\ t.op \in {"loadRecentlyViewed", "loadLastAdded", "recordGameView"}
    /\ tasks' = Resume(t)
    /\ isLoading' = FALSE
    /\ notices' = ApiNotice(ok)
    /\ Did(t.op, t.pc, ok)
    /\ UNCHANGED <<cacheVars, filterVars, detailVars, viewVars, domVars, srvVars,
                   genres>>

\* ------------------------------------------------------------------------
\* loadGamesForConsole
\* ------------------------------------------------------------------------

\* The handlers that call loadGamesForConsole and what each does once it
\* returns.
ExtractsGenresAfterLoad(op) ==
  op \in {"selectConsole", "onRescanConsole", "fetchSingleGameMetadata", "deleteGame"}

TasksAfterLoad(t) ==
  CASE t.op = "confirmAddGame" -> {LastAddedTask}
    [] t.op = "deleteGame" -> {LoadStatsTask}
    [] t.op = "onSaveGameEdit" -> {Task(t.op, "game", t.cid, t.gid, "")}
    [] OTHER -> {}

\* the games request of loadGamesForConsole resolves: the cache entry is
\* replaced by the response, or by [] when the request failed, and the
\* stats request is sent.
CacheAfterGames(gbc, cid, ok, games) ==
  [c \in DOMAIN gbc \cup {cid} |->
     IF c = cid THEN (IF ok THEN games ELSE <<>>) ELSE gbc[c]]

LoadGamesResolved ==
  \E t \in BagToSet(tasks), ok \in BOOLEAN :
    /\ t.pc = "games"
    /\ ConsoleResponds(t.cid, ok)
    /\ gamesByConsole' = CacheAfterGames(gamesByConsole, t.cid, ok, GetGames(t.cid))
    /\ tasks' = Resume(t) (+) SetToBag({Task(t.op, "consoleStats", t.cid, t.gid, t.arg)})
    /\ isLoading' = TRUE
    /\ notices' = ApiNotice(ok)
    /\ Did(t.op, t.pc, ok)
    /\ UNCHANGED <<consoles, consoleStats, archiveStats, filterVars, detailVars,
                   viewVars, domVars, srvVars, genres>>

\* consoleStats after the stats request of loadGamesForConsole.
StatsAfterLoad(old, ok, stats) == IF ok THEN stats ELSE NoStats

\* the stats request resolves: consoleStats is replaced, the list is
\* rendered, and the calling handler goes on.
LoadConsoleStatsResolved ==
  \E t \in BagToSet(tasks), ok \in BOOLEAN :
    /\ t.pc = "consoleStats"
    /\ ConsoleResponds(t.cid, ok)
    /\ consoleStats' = StatsAfterLoad(consoleStats, ok, GetConsoleStats(t.cid))
    /\ tasks' = SuspendAll(Resume(t), TasksAfterLoad(t))
    /\ isLoading' = LoadingAfter(TasksAfterLoad(t))
    /\ notices' = IF t.op = "onSaveConsole"
                    THEN Toast(ApiNotice(ok), "success")
                    ELSE ApiNotice(ok)
    /\ genres' = IF ExtractsGenresAfterLoad(t.op)
                   THEN ExtractGenres(currentConsoleId, gamesByConsole)
                   ELSE genres
    /\ Did(t.op, t.pc, ok)
    /\ UNCHANGED <<consoles, gamesByConsole, archiveStats, filterVars, detailVars,
                   viewVars, srvVars>>
    /\ Render(currentPage)

\* ------------------------------------------------------------------------
\* Views and console selection
\* ------------------------------------------------------------------------

\* savePageState() / loadPageState(): the view and the console id are the
\* only items read back.
SavedState(view, cid) == [view |-> view, consoleId |-> cid]

HomepageTasks == {LoadStatsTask, RecentlyViewedTask, LastAddedTask}

\* selectConsole(id) up to its await: selection, filters and page are reset,
\* the console view is shown, the state is saved and the games are requested.
SelectConsoleBody(id, bag) ==
  /\ currentConsoleId' = id
  /\ activeFilter' = "none"
  /\ activeGenreFilter' = <<>>
  /\ activeStatusFilter' = "none"
  /\ statusFilteredGames' = <<>>
  /\ currentPage' = 1
  /\ currentView' = "console"
  /\ storage' = SavedState("console", id)
  /\ tasks' = bag (+) SetToBag({Task("selectConsole", "games", id, 0, "")})
  /\ isLoading' = TRUE
  /\ UNCHANGED <<gamesByConsole, consoleStats, archiveStats, detailVars,
                 listed, gameList, pager, srvVars, genres>>

selectConsole ==
  \E id \in consoles :
    /\ CanStart
    /\ SelectConsoleBody(id, tasks)
    /\ notices' = NoNotice
    /\ Did("selectConsole", "call", TRUE)
    /\ UNCHANGED consoles

\* renderHomepage(): the homepage is shown and its three loaders start.
RenderHomepageBody(bag) ==
  /\ currentView' = "homepage"
  /\ tasks' = SuspendAll(bag, HomepageTasks)
  /\ isLoading' = TRUE

\* loadInitialData(): the consoles request resolves; the saved console is
\* selected when it is among the consoles received, else the homepage shows.
LoadInitialDataResolved ==
  \E t \in Awaiting("loadInitialData", "consoles"), ok \in BOOLEAN :
    /\ consoles' = IF ok THEN srvConsoles ELSE {}
    /\ notices' = ApiNotice(ok)
    /\ Did(t.op, t.pc, ok)
    /\ IF storage.view = "console" /\ storage.consoleId # 0
          /\ storage.consoleId \in consoles'
         THEN SelectConsoleBody(storage.consoleId, Resume(t))
         ELSE /\ RenderHomepageBody(Resume(t))
              /\ UNCHANGED <<gamesByConsole, consoleStats, archiveStats, filterVars,
                             detailVars, currentConsoleId, storage, domVars,
                             srvVars, genres>>

goToHomepage ==
  /\ CanStart
  /\ currentConsoleId' = 0
  /\ activeFilter' = "none"
  /\ activeGenreFilter' = <<>>
  /\ activeStatusFilter' = "none"
  /\ statusFilteredGames' = <<>>
  /\ consoleStats' = NoStats
  /\ currentPage' = 1
  /\ storage' = SavedState("homepage", 0)
  /\ RenderHomepageBody(tasks)
  /\ notices' = NoNotice
  /\ Did("goToHomepage", "call", TRUE)
  /\ UNCHANGED <<consoles, gamesByConsole, archiveStats, detailVars, listed,
                 gameList, pager, srvVars, genres>>

\* ------------------------------------------------------------------------
\* Filters
\* ------------------------------------------------------------------------

applyFilter ==
  \E letter \in AlphaFilters :
    /\ currentView = "console"
    /\ activeFilter' = letter
    /\ notices' = NoNotice
    /\ Did("applyFilter", "call", TRUE)
    /\ UNCHANGED <<cacheVars, activeGenreFilter, activeStatusFilter,
                   statusFilteredGames, detailVars, viewVars, srvVars, genres,
                   isLoading, tasks>>
    /\ Render(1)

\* the "All" button of the alphabetical index
resetFilter ==
  /\ currentView = "console"
  /\ activeFilter' = "none"
  /\ notices' = NoNotice
  /\ Did("resetFilter", "call", TRUE)
  /\ UNCHANGED <<cacheVars, activeGenreFilter, activeStatusFilter, statusFilteredGames,
                 detailVars, viewVars, srvVars, genres, isLoading, tasks>>
  /\ Render(1)

applyGenreFilter ==
  \E genre \in genres :
    /\ activeGenreFilter' = IF activeGenreFilter = genre THEN <<>> ELSE genre
    /\ activeFilter' = "none"
    /\ activeStatusFilter' = "none"
    /\ notices' = NoNotice
    /\ Did("applyGenreFilter", "call", TRUE)
    /\ UNCHANGED <<cacheVars, statusFilteredGames, detailVars, viewVars, srvVars,
                   genres, isLoading, tasks>>
    /\ Render(1)

\* applyStatusFilter(status) on the active status: the filter is toggled off.
applyStatusFilterOff ==
  /\ activeStatusFilter # "none"
  /\ activeStatusFilter' = "none"
  /\ statusFilteredGames' = <<>>
  /\ activeFilter' = "none"
  /\ activeGenreFilter' = <<>>
  /\ notices' = NoNotice
  /\ Did("applyStatusFilter", "off", TRUE)
  /\ UNCHANGED <<cacheVars, detailVars, viewVars, srvVars, genres, isLoading, tasks>>
  /\ Render(1)

\* applyStatusFilter(status) on another status, up to its await: the status
\* is made active and the by-status request is sent.
applyStatusFilter ==
  \E status \in Statuses :
    /\ CanStart
    /\ activeStatusFilter # status
    /\ activeStatusFilter' = status
    /\ tasks' = Suspend(Task("applyStatusFilter", "byStatus", currentConsoleId, 0, status))
    /\ isLoading' = TRUE
    /\ notices' = NoNotice
    /\ Did("applyStatusFilter", "call", TRUE)
    /\ UNCHANGED <<cacheVars, activeFilter, activeGenreFilter, statusFilteredGames,
                   detailVars, viewVars, domVars, srvVars, genres>>

\* the list applyStatusFilter stores for a response.
StatusGamesAfter(ok, games) == IF ok THEN games ELSE <<>>

\* the by-status request resolves: the response (or [] after a failure) is
\* stored, the other two filters are cleared and the list is rendered.
StatusFilterResolved ==
  \E t \in Awaiting("applyStatusFilter", "byStatus"), ok \in BOOLEAN :
    /\ (t.cid # 0) => ConsoleResponds(t.cid, ok)
    /\ statusFilteredGames' = StatusGamesAfter(ok, GetByStatus(t.cid, t.arg))
    /\ activeFilter' = "none"
    /\ activeGenreFilter' = <<>>
    /\ tasks' = Resume(t)
    /\ isLoading' = FALSE
    /\ notices' = ApiNotice(ok)
    /\ Did(t.op, t.pc, ok)
    /\ UNCHANGED <<cacheVars, activeStatusFilter, detailVars, viewVars, srvVars, genres>>
    /\ Render(1)

\* ------------------------------------------------------------------------
\* Game detail and its navigation
\* ------------------------------------------------------------------------

IdsOf(games) == {games[i].id : i \in DOMAIN games}

\* The list openGameDetail navigates in: the sorted cache of the current
\* console, narrowed by the alphabetical and the genre filter.
DetailGamesList(gbc, ccid, af, agf) ==
  LET base == SortByTitle(CachedGames(gbc, ccid))
      alpha == IF af # "none" THEN ApplyAlpha(base, af) ELSE base
  IN IF agf # <<>> THEN ApplyGenre(alpha, agf) ELSE alpha

\* a click on a card of the game list
openGameDetail ==
  \E gid \in IdsOf(gameList) :
    /\ CanStart
    /\ ~detailOpen
    /\ tasks' = Suspend(Task("openGameDetail", "game", 0, gid, ""))
    /\ isLoading' = TRUE
    /\ notices' = NoNotice
    /\ Did("openGameDetail", "call", TRUE)
    /\ UNCHANGED <<cacheVars, filterVars, detailVars, viewVars, domVars, srvVars, genres>>

\* what follows openGameDetail in the handler that called it
TasksAfterDetail(t) == IF t.op = "onSaveGameEdit" THEN {LoadStatsTask} ELSE {}

\* the game request of openGameDetail resolves: the game becomes the current
\* detail, its view is recorded and its status is requested; a failure ends
\* openGameDetail.
DetailGameResolved ==
  \E t \in BagToSet(tasks), ok \in BOOLEAN :
    /\ t.pc = "game"
    /\ GameResponds(t.gid, ok)
    /\ currentGameDetail' = IF ok THEN GameById(t.gid) ELSE currentGameDetail
    /\ tasks' = SuspendAll(Resume(t),
                           IF ok THEN {RecordViewTask(t.gid),
                                       Task(t.op, "gameStatus", t.cid, t.gid, "")}
                                 ELSE TasksAfterDetail(t))
    /\ isLoading' = (ok \/ TasksAfterDetail(t) # {})
    /\ notices' = ApiNotice(ok)
    /\ Did(t.op, t.pc, ok)
    /\ UNCHANGED <<cacheVars, filterVars, currentGameIndex, currentGamesList,
                   detailOpen, viewVars, domVars, srvVars, genres>>

\* the status request of openGameDetail resolves (loadGameStatus returns
\* null after a failure): the navigation list and index are set and the
\* modal is shown.
DetailStatusResolved ==
  \E t \in BagToSet(tasks), ok \in BOOLEAN :
    /\ t.pc = "gameStatus"
    /\ GameResponds(t.gid, ok)
    /\ currentGamesList' = DetailGamesList(gamesByConsole, currentConsoleId,
                                           activeFilter, activeGenreFilter)
    /\ currentGameIndex' = FindIndexById(currentGamesList', t.gid)
    /\ detailOpen' = TRUE
    /\ tasks' = SuspendAll(Resume(t), TasksAfterDetail(t))
    /\ isLoading' = LoadingAfter(TasksAfterDetail(t))
    /\ notices' = ApiNotice(ok)
    /\ Did(t.op, t.pc, ok)
    /\ UNCHANGED <<cacheVars, filterVars, currentGameDetail, viewVars, domVars,
                   srvVars, genres>>

\* toggleModal("#modal-game-detail", false)
closeGameDetail ==
  /\ detailOpen
  /\ detailOpen' = FALSE
  /\ notices' = NoNotice
  /\ Did("closeGameDetail", "call", TRUE)
  /\ UNCHANGED <<cacheVars, filterVars, currentGameDetail, currentGameIndex,
                 currentGamesList, viewVars, domVars, srvVars, genres, isLoading, tasks>>

\* the guards of navigateToPrevGame and navigateToNextGame
PrevBlocked(index, list) == index <= 0 \/ Len(list) = 0
NextBlocked(index, list) == index >= Len(list) - 1 \/ Len(list) = 0

\* a navigation that wraps around at the ends of the list
NavigateAround(op, blocked, index) ==
  /\ IF Len(currentGamesList) = 0
       THEN /\ Did(op, "blocked", TRUE)
            /\ UNCHANGED <<currentGameIndex, tasks, isLoading>>
       ELSE /\ CanStart
            /\ currentGameIndex' = index % Len(currentGamesList)
            /\ tasks' = Suspend(Task(op, "navGame", 0,
                                     currentGamesList[currentGameIndex' + 1].id, ""))
            /\ isLoading' = TRUE
            /\ Did(op, "call", TRUE)
  /\ notices' = NoNotice
  /\ UNCHANGED <<cacheVars, filterVars, currentGameDetail, currentGamesList,
                 detailOpen, viewVars, domVars, srvVars, genres>>

\* navigateToPrevGame() / navigateToNextGame() up to the await: nothing
\* happens at the end of the list, else the index moves and the game at the
\* new index is requested.
Navigate(op, blocked, index) ==
  /\ IF blocked
       THEN /\ Did(op, "blocked", TRUE)
            /\ UNCHANGED <<currentGameIndex, tasks, isLoading>>
       ELSE /\ CanStart
            /\ currentGameIndex' = index
            /\ tasks' = Suspend(Task(op, "navGame", 0, currentGamesList[index + 1].id, ""))
            /\ isLoading' = TRUE
            /\ Did(op, "call", TRUE)
  /\ notices' = NoNotice
  /\ UNCHANGED <<cacheVars, filterVars, currentGameDetail, currentGamesList,
                 detailOpen, viewVars, domVars, srvVars, genres>>

\* the buttons and the arrow keys of the open detail modal
navigateToPrevGame ==
  /\ detailOpen
  /\ Navigate("navigateToPrevGame", PrevBlocked(currentGameIndex, currentGamesList),
              currentGameIndex - 1)

navigateToNextGame ==
  /\ detailOpen
  /\ Navigate("navigateToNextGame", NextBlocked(currentGameIndex, currentGamesList),
              currentGameIndex + 1)

\* a response kept only when it is the game at the index of now
DetailAfterNavAtIndex(detail, ok, gid, list, index) ==
  IF ok /\ index + 1 \in DOMAIN list /\ list[index + 1].id = gid
    THEN GameById(gid) ELSE detail

\* currentGameDetail = game: the response is kept whatever the index has
\* become since the request was sent; a failure keeps the detail.
DetailAfterNav(detail, ok, gid, list, index) ==
  IF ok THEN GameById(gid) ELSE detail

\* the game request of a navigation resolves: the game becomes the current
\* detail and its status is requested; a failure shows a second toast.
NavGameResolved ==
  \E t \in BagToSet(tasks), ok \in BOOLEAN :
    /\ t.pc = "navGame"
    /\ GameResponds(t.gid, ok)
    /\ currentGameDetail' = DetailAfterNav(currentGameDetail, ok, t.gid,
                                          currentGamesList, currentGameIndex)
    /\ tasks' = SuspendAll(Resume(t),
                           IF ok THEN {Task(t.op, "navStatus", 0, t.gid, "")} ELSE {})
    /\ isLoading' = ok
    /\ notices' = IF ok THEN NoNotice ELSE Toast(ApiNotice(ok), "error")
    /\ Did(t.op, t.pc, ok)
    /\ UNCHANGED <<cacheVars, filterVars, currentGameIndex, currentGamesList,
                   detailOpen, viewVars, domVars, srvVars, genres>>

\* the status request of a navigation resolves and the detail is rendered.
NavStatusResolved ==
  \E t \in BagToSet(tasks), ok \in BOOLEAN :
    /\ t.pc = "navStatus"
    /\ GameResponds(t.gid, ok)
    /\ tasks' = Resume(t)
    /\ isLoading' = FALSE
    /\ notices' = ApiNotice(ok)
    /\ Did(t.op, t.pc, ok)
    /\ UNCHANGED <<cacheVars, filterVars, detailVars, viewVars, domVars, srvVars, genres>>

\* ------------------------------------------------------------------------
\* Mutations
\* ------------------------------------------------------------------------

\* The ids the server gives to consoles created during the run.
NewConsoleIds == {3}

\* the console removed from the cache, the entry of its games kept
KeepGamesEntry(cs, gbc, cid) == [consoles |-> cs \ {cid}, games |-> gbc]

\* the cache after a successful DELETE /consoles/{id}:
\* consoles.filter(c => c.id !== consoleId); delete gamesByConsole[consoleId]
DeleteFromCache(cs, gbc, cid) ==
  [consoles |-> cs \ {cid},
   games |-> [c \in DOMAIN gbc \ {cid} |-> gbc[c]]]

\* deleteConsole(consoleId) up to its await (the user confirms the dialog).
deleteConsole ==
  \E cid \in consoles :
    /\ CanStart
    /\ tasks' = Suspend(Task("deleteConsole", "delete", cid, 0, ""))
    /\ isLoading' = TRUE
    /\ notices' = NoNotice
    /\ Did("deleteConsole", "call", TRUE)
    /\ UNCHANGED <<cacheVars, filterVars, detailVars, viewVars, domVars, srvVars, genres>>

\* the DELETE resolves: the console and its games entry leave the cache, the
\* selection is reset when it was the current console, the list is rendered
\* and the stats are requested; a failure changes nothing.
DeleteConsoleResolved ==
  \E t \in Awaiting("deleteConsole", "delete"), ok \in BOOLEAN :
    /\ ConsoleResponds(t.cid, ok)
    /\ notices' = IF ok THEN Toast(NoNotice, "success") ELSE ApiNotice(ok)
    /\ Did(t.op, t.pc, ok)
    /\ IF ok
         THEN /\ srvConsoles' = srvConsoles \ {t.cid}
              /\ srvGames' = srvGames \ SrvGamesOf(t.cid)
              /\ consoles' = DeleteFromCache(consoles, gamesByConsole, t.cid).consoles
              /\ gamesByConsole' = DeleteFromCache(consoles, gamesByConsole, t.cid).games
              /\ currentConsoleId' = IF currentConsoleId = t.cid THEN 0 ELSE currentConsoleId
              /\ tasks' = Resume(t) (+) SetToBag({LoadStatsTask})
              /\ isLoading' = TRUE
              /\ UNCHANGED <<consoleStats, archiveStats, filterVars, detailVars,
                             currentView, storage, genres>>
              /\ Render(currentPage)
         ELSE /\ tasks' = Resume(t)
              /\ isLoading' = FALSE
              /\ UNCHANGED <<cacheVars, filterVars, detailVars, viewVars, domVars,
                             srvVars, genres>>

\* A handler that sends one mutating request and then refreshes the list:
\* the request is sent.
StartMutation(op, pc, cid, gid, shown) ==
  /\ CanStart
  /\ tasks' = Suspend(Task(op, pc, cid, gid, ""))
  /\ isLoading' = TRUE
  /\ notices' = shown
  /\ Did(op, "call", TRUE)
  /\ UNCHANGED <<cacheVars, filterVars, detailVars, viewVars, domVars, srvVars, genres>>

\* a busy flag cleared only after an answer that was a success
EndMutationStillBusy(t, ok, shown, next, caught) ==
  /\ tasks' = SuspendAll(Resume(t), IF ok THEN next ELSE {})
  /\ isLoading' = (~ok \/ next # {})
  /\ notices' = IF ok THEN shown
                ELSE [ApiNotice(ok) EXCEPT !.error = @ + caught]
  /\ Did(t.op, t.pc, ok)
  /\ UNCHANGED <<cacheVars, filterVars, detailVars, viewVars, domVars, genres>>

\* The mutating request resolves: after a success the handler shows `shown`
\* and goes on with the requests `next`; after a failure it shows apiCall's
\* toast and those of its own catch, `caught` of them.
EndMutation(t, ok, shown, next, caught) ==
  /\ tasks' = SuspendAll(Resume(t), IF ok THEN next ELSE {})
  /\ isLoading' = (ok /\ next # {})
  /\ notices' = IF ok THEN shown
                ELSE [ApiNotice(ok) EXCEPT !.error = @ + caught]
  /\ Did(t.op, t.pc, ok)
  /\ UNCHANGED <<cacheVars, filterVars, detailVars, viewVars, domVars, genres>>

\* loadGamesForConsole(cid), called by handler t.op
LoadGamesTask(t, cid) == Task(t.op, "games", cid, t.gid, "")

\* confirmAddGame(), single tab and bulk tab, with a console selected and a
\* title (a list of titles) typed: the titles are those of the console's rows.
confirmAddGame ==
  \E gid \in GameIds :
    /\ currentConsoleId # 0
    /\ GameById(gid).console_id = currentConsoleId
    /\ StartMutation("confirmAddGame", "add", currentConsoleId, gid, NoNotice)

confirmAddGameBulk ==
  /\ currentConsoleId # 0
  /\ StartMutation("confirmAddGameBulk", "add", currentConsoleId, 0, NoNotice)

\* the toasts a handler's catch adds to apiCall's own
CaughtToasts(op) ==
  IF op \in {"confirmAddGame", "confirmAddGameBulk", "fetchSingleGameMetadata"}
    THEN 1 ELSE 0

AddGameResolved ==
  \E t \in BagToSet(tasks), ok \in BOOLEAN :
    /\ t.pc = "add"
    /\ ConsoleResponds(t.cid, ok)
    /\ srvGames' = IF ~ok THEN srvGames
                   ELSE IF t.op = "confirmAddGame" THEN srvGames \cup {t.gid}
                   ELSE srvGames \cup {g \in GameIds : GameById(g).console_id = t.cid}
    /\ UNCHANGED srvConsoles
    /\ EndMutation(t, ok,
                   IF t.op = "confirmAddGame" /\ t.gid \in srvGames
                     THEN Toast(NoNotice, "info")
                     ELSE Toast(NoNotice, "success"),
                   {LoadGamesTask(t, currentConsoleId)},
                   CaughtToasts(t.op))

\* deleteGame(gameId) from a card of the game list (the user confirms).
deleteGame ==
  \E gid \in IdsOf(gameList) :
    StartMutation("deleteGame", "delete", 0, gid, NoNotice)

DeleteGameResolved ==
  \E t \in Awaiting("deleteGame", "delete"), ok \in BOOLEAN :
    /\ GameResponds(t.gid, ok)
    /\ srvGames' = IF ok THEN srvGames \ {t.gid} ELSE srvGames
    /\ UNCHANGED srvConsoles
    /\ EndMutation(t, ok, Toast(NoNotice, "success"),
                   {LoadGamesTask(t, currentConsoleId)}, CaughtToasts(t.op))

\* onRescanConsole() with a cached console selected.
onRescanConsole ==
  /\ currentConsoleId \in consoles
  /\ StartMutation("onRescanConsole", "scan", currentConsoleId, 0, NoNotice)

RescanResolved ==
  \E t \in Awaiting("onRescanConsole", "scan"), ok \in BOOLEAN :
    /\ ConsoleResponds(t.cid, ok)
    /\ srvGames' = IF ok THEN srvGames \cup {g \in GameIds : GameById(g).console_id = t.cid}
                         ELSE srvGames
    /\ UNCHANGED srvConsoles
    /\ EndMutation(t, ok, Toast(NoNotice, "success"),
                   {LoadGamesTask(t, t.cid)}, CaughtToasts(t.op))

\* fetchSingleGameMetadata(gameId) from a card of the game list.
fetchSingleGameMetadata ==
  \E gid \in IdsOf(gameList) :
    StartMutation("fetchSingleGameMetadata", "fetch", 0, gid, Toast(NoNotice, "info"))

\* the fetch resolves; the server may answer 200 with a status other than
\* "ok".  After "ok" the open detail is fetched again when it shows this
\* game, else the list is refreshed when a console is selected.
FetchMetadataResolved ==
  \E t \in Awaiting("fetchSingleGameMetadata", "fetch"), ok \in BOOLEAN,
     status \in {"ok", "error"} :
    /\ GameResponds(t.gid, ok)
    /\ ~ok => status = "error"
    /\ UNCHANGED srvVars
    /\ EndMutation(t, ok,
                   IF status = "ok" THEN Toast(NoNotice, "success")
                                    ELSE Toast(NoNotice, "error"),
                   IF status # "ok" THEN {}
                   ELSE IF currentGameDetail.id = t.gid
                     THEN {Task(t.op, "refetch", 0, t.gid, "")}
                   ELSE IF currentConsoleId # 0
                     THEN {LoadGamesTask(t, currentConsoleId)}
                   ELSE {},
                   CaughtToasts(t.op))

\* the second game request of fetchSingleGameMetadata resolves.
RefetchResolved ==
  \E t \in Awaiting("fetchSingleGameMetadata", "refetch"), ok \in BOOLEAN :
    /\ GameResponds(t.gid, ok)
    /\ currentGameDetail' = IF ok THEN GameById(t.gid) ELSE currentGameDetail
    /\ tasks' = SuspendAll(Resume(t),
                           IF ok /\ currentConsoleId # 0
                             THEN {LoadGamesTask(t, currentConsoleId)} ELSE {})
    /\ isLoading' = (ok /\ currentConsoleId # 0)
    /\ notices' = IF ok THEN NoNotice
                  ELSE [ApiNotice(ok) EXCEPT !.error = @ + CaughtToasts(t.op)]
    /\ Did(t.op, t.pc, ok)
    /\ UNCHANGED <<cacheVars, filterVars, currentGameIndex, currentGamesList,
                   detailOpen, viewVars, domVars, srvVars, genres>>

\* onSaveGameEdit() with a title typed, for the game of the detail modal.
onSaveGameEdit ==
  /\ detailOpen
  /\ currentGameDetail # NoGame
  /\ StartMutation("onSaveGameEdit", "update", 0, currentGameDetail.id, NoNotice)

\* the update resolves: the status is saved next; a failure ends the handler.
UpdateGameResolved ==
  \E t \in Awaiting("onSaveGameEdit", "update"), ok \in BOOLEAN :
    /\ GameResponds(t.gid, ok)
    /\ UNCHANGED srvVars
    /\ EndMutation(t, ok, NoNotice, {Task(t.op, "saveStatus", 0, t.gid, "")},
                   CaughtToasts(t.op))

\* what onSaveGameEdit does when saveGameStatus has returned
TasksAfterSaveStatus(t, ok, ccid) ==
  (IF ok THEN {LoadStatsTask} ELSE {})
    \cup {IF ccid # 0 THEN LoadGamesTask(t, ccid)
                      ELSE Task(t.op, "game", 0, t.gid, "")}

\* the status save resolves: saveGameStatus requests the stats and returns
\* true, or returns false after a failure; the handler then shows its
\* success toast, closes the edit modal and refreshes the list and the detail.
SaveStatusResolved ==
  \E t \in Awaiting("onSaveGameEdit", "saveStatus"), ok \in BOOLEAN :
    /\ GameResponds(t.gid, ok)
    /\ tasks' = SuspendAll(Resume(t), TasksAfterSaveStatus(t, ok, currentConsoleId))
    /\ isLoading' = TRUE
    /\ notices' = Toast(ApiNotice(ok), "success")
    /\ Did(t.op, t.pc, ok)
    /\ UNCHANGED <<cacheVars, filterVars, detailVars, viewVars, domVars, srvVars, genres>>

\* onSaveConsole() with a name typed and no console being edited.
onSaveConsoleCreate ==
  \E id \in NewConsoleIds :
    /\ id \notin srvConsoles
    /\ StartMutation("onSaveConsole", "create", 0, 0, NoNotice)

\* the POST resolves: the created console is pushed to the cache with an
\* empty games entry and becomes the current console, and its games are
\* loaded.
CreateConsoleResolved ==
  \E t \in Awaiting("onSaveConsole", "create"), ok \in BOOLEAN,
     id \in NewConsoleIds :
    /\ ok => id \notin srvConsoles
    /\ notices' = ApiNotice(ok)
    /\ Did(t.op, t.pc, ok)
    /\ IF ok
         THEN /\ srvConsoles' = srvConsoles \cup {id}
              /\ consoles' = consoles \cup {id}
              /\ gamesByConsole' = CacheAfterGames(gamesByConsole, id, FALSE, <<>>)
              /\ currentConsoleId' = id
              /\ tasks' = Resume(t) (+) SetToBag({Task(t.op, "games", id, 0, "")})
              /\ isLoading' = TRUE
              /\ UNCHANGED <<srvGames, consoleStats, archiveStats, filterVars,
                             detailVars, currentView, storage, domVars, genres>>
         ELSE /\ tasks' = Resume(t)
              /\ isLoading' = FALSE
              /\ UNCHANGED <<cacheVars, filterVars, detailVars, viewVars, domVars,
                             srvVars, genres>>

\* ------------------------------------------------------------------------
\* Start-up
\* ------------------------------------------------------------------------

\* The consoles and games the server starts with.
\* performGlobalSearch(query) with a query that is not blank, up to its
\* await.  The state the search starts from is remembered, unless the
\* search results are showing already.
performGlobalSearch ==
  /\ CanStart
  /\ tasks' = Suspend(Task("performGlobalSearch", "search", 0, 0, ""))
  /\ isLoading' = TRUE
  /\ notices' = NoNotice
  /\ last' = Step("performGlobalSearch", "call", TRUE)
  /\ overlap' = overlap
  /\ before' = IF currentView = "search" THEN before ELSE Snapshot
  /\ UNCHANGED <<cacheVars, filterVars, detailVars, viewVars, domVars, srvVars, genres>>

\* GET /games/search resolves: the search view is shown; after a failure
\* apiCall's toast and the one of the handler's catch are shown and the view
\* stays.  (globalSearchQuery is written here and never read.)
SearchResolved ==
  \E t \in Awaiting("performGlobalSearch", "search"), ok \in BOOLEAN :
    /\ tasks' = Resume(t)
    /\ isLoading' = FALSE
    /\ currentView' = IF ok THEN "search" ELSE currentView
    /\ notices' = IF ok THEN NoNotice ELSE Toast(ApiNotice(ok), "error")
    /\ Did(t.op, t.pc, ok)
    /\ UNCHANGED <<cacheVars, filterVars, detailVars, currentConsoleId, storage,
                   domVars, srvVars, genres>>

\* clearSearch() from the search results: the console view and a refresh of
\* its games (not awaited) when a console is selected, else the homepage.
clearSearch ==
  /\ currentView = "search"
  /\ CanStart
  /\ IF currentConsoleId # 0
       THEN /\ currentView' = "console"
            /\ tasks' = Suspend(Task("clearSearch", "games", currentConsoleId, 0, ""))
            /\ isLoading' = TRUE
       ELSE RenderHomepageBody(tasks)
  /\ notices' = NoNotice
  /\ Did("clearSearch", "call", TRUE)
  /\ UNCHANGED <<cacheVars, filterVars, detailVars, currentConsoleId, storage,
                 domVars, srvVars, genres>>

\* renderGamesForCurrentConsole() called once more, nothing else changed.
renderGamesForCurrentConsole ==
  /\ currentView = "console"
  /\ notices' = NoNotice
  /\ Did("renderGamesForCurrentConsole", "call", TRUE)
  /\ UNCHANGED <<cacheVars, filterVars, detailVars, viewVars, srvVars, genres,
                 isLoading, tasks>>
  /\ Render(currentPage)

\* The Next button under the cards: currentPage++, then a render.
nextPage ==
  /\ currentView = "console"
  /\ pager.next
  /\ notices' = NoNotice
  /\ Did("nextPage", "call", TRUE)
  /\ UNCHANGED <<cacheVars, filterVars, detailVars, viewVars, srvVars, genres,
                 isLoading, tasks>>
  /\ Render(currentPage + 1)

\* The Previous button under the cards: currentPage--, then a render.
prevPage ==
  /\ currentView = "console"
  /\ pager.prev
  /\ notices' = NoNotice
  /\ Did("prevPage", "call", TRUE)
  /\ UNCHANGED <<cacheVars, filterVars, detailVars, viewVars, srvVars, genres,
                 isLoading, tasks>>
  /\ Render(currentPage - 1)

\* ------------------------------------------------------------------------
\* The save buttons of the modal forms, with what the user typed
\* ------------------------------------------------------------------------

\* What can be typed in a text input: nothing, a blank, a padded word.
TypedTexts == {<<>>, <<Blank>>, <<Blank, "a">>}
ConsoleTypes == {"manual", "folder"}

Form(kind, text, more) == [kind |-> kind, text |-> text, more |-> more]

\* an input read without trimming it
FilledAsTyped(text) == text # <<>>

\* const title = input.value.trim(); if (!title) ...
Filled(text) == Trim(text) # <<>>

\* showToast(message, type); return; -- the handler ends before its try.
\* (The click comes, like every click, while fewer than `overlap` requests
\* are in flight.)
Rejected(op, form, type) ==
  /\ CanStart
  /\ notices' = Toast(NoNotice, type)
  /\ last' = [Step(op, "rejected", TRUE) EXCEPT !.form = form]
  /\ overlap' = overlap
  /\ before' = before
  /\ UNCHANGED <<cacheVars, filterVars, detailVars, viewVars, domVars, srvVars,
                 genres, isLoading, tasks>>

\* the form was accepted: its request is sent
Submitted(op, pc, cid, gid, form) ==
  /\ CanStart
  /\ tasks' = Suspend(Task(op, pc, cid, gid, ""))
  /\ isLoading' = TRUE
  /\ notices' = NoNotice
  /\ last' = [Step(op, "call", TRUE) EXCEPT !.form = form]
  /\ overlap' = overlap
  /\ before' = before
  /\ UNCHANGED <<cacheVars, filterVars, detailVars, viewVars, domVars, srvVars, genres>>

\* onSaveConsole() with no console being edited: the name is required, and
\* the path (read only for a folder console) is required for a folder.
onSaveConsole ==
  \E kind \in ConsoleTypes, name \in TypedTexts, typedPath \in TypedTexts :
    LET path == IF kind = "folder" THEN typedPath ELSE <<>>
        form == Form(kind, name, path)
    IN /\ typedPath = path
       /\ IF ~Filled(name) THEN Rejected("onSaveConsole", form, "warning")
          ELSE IF kind = "folder" /\ ~Filled(path)
            THEN Rejected("onSaveConsole", form, "warning")
          ELSE \E id \in NewConsoleIds :
                 /\ id \notin srvConsoles
                 /\ Submitted("onSaveConsole", "create", 0, 0, form)

\* confirmAddGame() on the single tab: a console must be selected and a
\* title typed; the server adds the row of that title.
confirmAddGameSingle ==
  \E title \in TypedTexts :
    LET form == Form("single", title, <<>>)
    IN IF currentConsoleId = 0 THEN Rejected("confirmAddGame", form, "warning")
       ELSE IF ~Filled(title) THEN Rejected("confirmAddGame", form, "warning")
       ELSE \E gid \in GameIds :
              /\ GameById(gid).console_id = currentConsoleId
              /\ Submitted("confirmAddGame", "add", currentConsoleId, gid, form)

\* confirmAddGame() on the bulk tab: a console must be selected and a list
\* pasted.
confirmAddGameList ==
  \E list \in TypedTexts :
    LET form == Form("bulk", list, <<>>)
    IN IF currentConsoleId = 0 THEN Rejected("confirmAddGameBulk", form, "warning")
       ELSE IF ~Filled(list) THEN Rejected("confirmAddGameBulk", form, "warning")
       ELSE Submitted("confirmAddGameBulk", "add", currentConsoleId, 0, form)

\* onSaveGameEdit() in the edit modal of the game of the detail modal: the
\* title is required.
onSaveGameEditForm ==
  \E title \in TypedTexts :
    LET form == Form("edit", title, <<>>)
    IN /\ detailOpen
       /\ currentGameDetail # NoGame
       /\ IF ~Filled(title) THEN Rejected("onSaveGameEdit", form, "warning")
          ELSE Submitted("onSaveGameEdit", "update", 0, currentGameDetail.id, form)

\* onSaveCover() on the URL tab, opened from a card of the game list.
onSaveCover ==
  \E gid \in IdsOf(gameList), url \in TypedTexts :
    LET form == Form("url", url, <<>>)
    IN IF ~Filled(url) THEN Rejected("onSaveCover", form, "warning")
       ELSE Submitted("onSaveCover", "cover", 0, gid, form)

\* the cover request resolves: a success toast, and the games of the current
\* console (whatever currentConsoleId holds by now) are loaded again.
SaveCoverResolved ==
  \E t \in Awaiting("onSaveCover", "cover"), ok \in BOOLEAN :
    /\ GameResponds(t.gid, ok)
    /\ EndMutation(t, ok, Toast(NoNotice, "success"),
                   {LoadGamesTask(t, currentConsoleId)}, 0)
    /\ UNCHANGED srvVars

\* onSaveScreenshot() on the URL tab, opened from the detail modal.
onSaveScreenshot ==
  \E url \in TypedTexts :
    LET form == Form("url", url, <<>>)
    IN /\ detailOpen
       /\ currentGameDetail # NoGame
       /\ IF ~Filled(url) THEN Rejected("onSaveScreenshot", form, "warning")
          ELSE Submitted("onSaveScreenshot", "screenshot", 0,
                         currentGameDetail.id, form)

\* the screenshot request resolves: a success toast, and the detail is opened
\* again when there is one.
SaveScreenshotResolved ==
  \E t \in Awaiting("onSaveScreenshot", "screenshot"), ok \in BOOLEAN :
    /\ GameResponds(t.gid, ok)
    /\ EndMutation(t, ok, Toast(NoNotice, "success"),
                   IF currentGameDetail # NoGame
                     THEN {Task(t.op, "game", 0, currentGameDetail.id, "")}
                     ELSE {},
                   0)
    /\ UNCHANGED srvVars

InitialConsoles == {1, 2}

\* The module-level initial values, with loadInitialData() suspended on its
\* consoles request; localStorage holds what an earlier session saved.
InitWith(bound) ==
  /\ overlap = bound
  /\ consoles = {}
  /\ gamesByConsole = <<>>
  /\ currentConsoleId = 0
  /\ currentGameDetail = NoGame
  /\ activeFilter = "none"
  /\ activeGenreFilter = <<>>
  /\ activeStatusFilter = "none"
  /\ statusFilteredGames = <<>>
  /\ currentPage = 1
  /\ isLoading = TRUE
  /\ currentView = "homepage"
  /\ archiveStats = [consoles |-> 0, games |-> 0]
  /\ consoleStats = NoStats
  /\ genres = {}
  /\ currentGameIndex = -1
  /\ currentGamesList = <<>>
  /\ detailOpen = FALSE
  /\ storage \in {SavedState("homepage", 0)}
                   \cup {SavedState("console", c) : c \in ConsoleIds}
  /\ listed = <<>>
  /\ gameList = <<>>
  /\ pager = NoPager
  /\ notices = NoNotice
  /\ srvConsoles = InitialConsoles
  /\ srvGames = GameIds
  /\ tasks = SetToBag({Task("loadInitialData", "consoles", 0, 0, "")})
  /\ last = Step("init", "call", TRUE)
  /\ before = Snapshot

Init == InitWith(MaxInFlight)

\* The page, once it has started, is loaded again: the module state is the
\* one at load, the requests of the page that is left are dropped,
\* loadInitialData() is called; localStorage and the server are as they
\* were.  The state the reload starts from is remembered.
reload ==
  /\ Awaiting("loadInitialData", "consoles") = {}
  /\ consoles' = {}
  /\ gamesByConsole' = <<>>
  /\ currentConsoleId' = 0
  /\ currentGameDetail' = NoGame
  /\ activeFilter' = "none"
  /\ activeGenreFilter' = <<>>
  /\ activeStatusFilter' = "none"
  /\ statusFilteredGames' = <<>>
  /\ currentPage' = 1
  /\ isLoading' = TRUE
  /\ currentView' = "homepage"
  /\ archiveStats' = [consoles |-> 0, games |-> 0]
  /\ consoleStats' = NoStats
  /\ genres' = {}
  /\ currentGameIndex' = -1
  /\ currentGamesList' = <<>>
  /\ detailOpen' = FALSE
  /\ listed' = <<>>
  /\ gameList' = <<>>
  /\ pager' = NoPager
  /\ notices' = NoNotice
  /\ tasks' = SetToBag({Task("loadInitialData", "consoles", 0, 0, "reload")})
  /\ last' = Step("reload", "call", TRUE)
  /\ before' = Snapshot
  /\ UNCHANGED <<storage, srvVars, overlap>>

InitOverlapping == InitWith(MaxInFlight + 1)

\* A session that started in the saved console `cid` of a server holding
\* the games `rows`, after its requests were answered: the console's games
\* are cached and their first page is shown.
EstablishedWith(cid, rows, bound) ==
  /\ srvConsoles = InitialConsoles
  /\ srvGames = rows
  /\ overlap = bound
  /\ consoles = InitialConsoles
  /\ gamesByConsole = [c \in {cid} |-> GetGames(cid)]
  /\ currentConsoleId = cid
  /\ activeFilter = "none"
  /\ activeGenreFilter = <<>>
  /\ activeStatusFilter = "none"
  /\ statusFilteredGames = <<>>
  /\ isLoading = FALSE
  /\ currentView = "console"
  /\ archiveStats = [consoles |-> 0, games |-> 0]
  /\ consoleStats = GetConsoleStats(cid)
  /\ genres = ExtractGenres(cid, gamesByConsole)
  /\ storage = SavedState("console", cid)
  /\ listed = SortByTitle(GetGames(cid))
  /\ currentPage = 1
  /\ gameList = PageGames(listed, 1)
  /\ pager = Pagination(gameList, 1, TotalPages(Len(listed)))
  /\ notices = NoNotice
  /\ tasks = EmptyBag

Established(cid, rows) ==
  /\ EstablishedWith(cid, rows, MaxInFlight)
  /\ currentGameDetail = NoGame
  /\ currentGameIndex = -1
  /\ currentGamesList = <<>>
  /\ detailOpen = FALSE
  /\ last = Step("selectConsole", "consoleStats", TRUE)

\* The same session after a click on the first card, openGameDetail
\* answered: the detail modal shows the first game of the list; requests
\* may overlap.
NavSizes == {3, 4}

InitNav ==
  /\ \E n \in NavSizes : EstablishedWith(1, LibraryIds(n) \cup {3}, MaxInFlight + 1)
  /\ currentGamesList = listed
  /\ currentGameIndex = 0
  /\ currentGameDetail = listed[1]
  /\ detailOpen = TRUE
  /\ last = Step("openGameDetail", "gameStatus", TRUE)
  /\ before = Snapshot

\* Console 1 of a library that fills no page, one page exactly, one page
\* and a card, two pages exactly, two pages and a card, or has MaxGames
\* games; console 2 of one game.
LibrarySizes ==
  {0, 1, PAGE_SIZE, PAGE_SIZE + 1, 2 * PAGE_SIZE, 2 * PAGE_SIZE + 1, MaxGames}

InitPages ==
  /\ \E n \in LibrarySizes : Established(1, LibraryIds(n) \cup {3})
  /\ before = Snapshot

\* Console 1 of at most MaxLen rows that try the filters.
MaxLen == 2

InitPipe ==
  /\ \E rows \in SUBSET ShelfIds :
        /\ Cardinality(rows) <= MaxLen
        /\ Established(1, rows \cup {3})
  /\ before = Snapshot

Background == LoadStatsResolved \/ BackgroundResolved

LoadGames == LoadGamesResolved \/ LoadConsoleStatsResolved

\* Console selection and the three filters.
NextFilters ==
  \/ LoadInitialDataResolved
  \/ Background
  \/ LoadGames
  \/ selectConsole
  \/ goToHomepage
  \/ applyFilter
  \/ resetFilter
  \/ applyGenreFilter
  \/ applyStatusFilterOff
  \/ applyStatusFilter
  \/ StatusFilterResolved

SpecFilters == Init /\ [][NextFilters]_vars

\* Paging through a console's games, switching console meanwhile.
NextPages ==
  \/ LoadGames
  \/ selectConsole
  \/ applyFilter
  \/ resetFilter
  \/ nextPage
  \/ prevPage
  \/ renderGamesForCurrentConsole

SpecPages == InitPages /\ [][NextPages]_vars

\* The alphabetical and the genre filter on a cached console.
NextPipe ==
  \/ applyFilter
  \/ resetFilter
  \/ applyGenreFilter

SpecPipe == InitPipe /\ [][NextPipe]_vars

\* Mutations of games and the refresh that follows them.
NextRefresh ==
  \/ LoadInitialDataResolved
  \/ Background
  \/ LoadGames
  \/ selectConsole
  \/ confirmAddGame
  \/ confirmAddGameBulk
  \/ AddGameResolved
  \/ deleteGame
  \/ DeleteGameResolved
  \/ onRescanConsole
  \/ RescanResolved

SpecRefresh == Init /\ [][NextRefresh]_vars

\* Handlers of several requests: the edit of a game and the metadata fetch.
NextEdit ==
  \/ LoadInitialDataResolved
  \/ Background
  \/ LoadGames
  \/ selectConsole
  \/ openGameDetail
  \/ DetailGameResolved
  \/ DetailStatusResolved
  \/ closeGameDetail
  \/ onSaveGameEdit
  \/ UpdateGameResolved
  \/ SaveStatusResolved
  \/ fetchSingleGameMetadata
  \/ FetchMetadataResolved
  \/ RefetchResolved

SpecEdit == Init /\ [][NextEdit]_vars

\* Consoles created and deleted while other requests are in flight.
NextConsoles ==
  \/ LoadInitialDataResolved
  \/ Background
  \/ LoadGames
  \/ selectConsole
  \/ deleteConsole
  \/ DeleteConsoleResolved
  \/ onSaveConsoleCreate
  \/ CreateConsoleResolved

SpecConsoles == InitOverlapping /\ [][NextConsoles]_vars

\* Consoles selected, created and deleted while a filter is set.
NextSwitch ==
  \/ LoadInitialDataResolved
  \/ Background
  \/ LoadGames
  \/ selectConsole
  \/ goToHomepage
  \/ applyFilter
  \/ deleteConsole
  \/ DeleteConsoleResolved
  \/ onSaveConsoleCreate
  \/ CreateConsoleResolved

SpecSwitch == Init /\ [][NextSwitch]_vars

\* Prev and next in the detail modal, pressed again before the answer of
\* the press before; every request is answered.
NavGameAnswered == NavGameResolved /\ last'.ok
NavStatusAnswered == NavStatusResolved /\ last'.ok

NextNav ==
  \/ navigateToPrevGame
  \/ navigateToNextGame
  \/ NavGameAnswered
  \/ NavStatusAnswered

SpecNav == InitNav /\ [][NextNav]_vars

\* The user actions of the console view among requests that fail.
NextBusy ==
  \/ LoadGames
  \/ selectConsole
  \/ applyFilter
  \/ nextPage
  \/ prevPage
  \/ onRescanConsole
  \/ RescanResolved

\* Console 1 of a library of one page and a card.
InitBusy ==
  /\ Established(1, LibraryIds(PAGE_SIZE + 1) \cup {3})
  /\ before = Snapshot

SpecBusy == InitBusy /\ [][NextBusy]_vars

\* The modal forms saved with and without their required input.
NextForms ==
  \/ LoadInitialDataResolved
  \/ Background
  \/ LoadGames
  \/ selectConsole
  \/ onSaveConsole
  \/ CreateConsoleResolved
  \/ confirmAddGameSingle
  \/ confirmAddGameList
  \/ AddGameResolved
  \/ openGameDetail
  \/ DetailGameResolved
  \/ DetailStatusResolved
  \/ onSaveGameEditForm
  \/ UpdateGameResolved
  \/ SaveStatusResolved
  \/ onSaveCover
  \/ SaveCoverResolved
  \/ onSaveScreenshot
  \/ SaveScreenshotResolved

SpecForms == Init /\ [][NextForms]_vars

\* Reloading the page among consoles selected, created and deleted.
NextReload ==
  \/ LoadInitialDataResolved
  \/ Background
  \/ LoadGames
  \/ selectConsole
  \/ goToHomepage
  \/ deleteConsole
  \/ DeleteConsoleResolved
  \/ onSaveConsoleCreate
  \/ CreateConsoleResolved
  \/ reload

SpecReload == Init /\ [][NextReload]_vars

\* Going to the homepage while requests of a console are in flight.
NextHome ==
  \/ LoadInitialDataResolved
  \/ Background
  \/ LoadGames
  \/ selectConsole
  \/ goToHomepage
  \/ applyStatusFilter
  \/ StatusFilterResolved

SpecHome == InitOverlapping /\ [][NextHome]_vars

\* The global search, from the homepage and from a console, among consoles
\* created and deleted.
NextSearch ==
  \/ LoadInitialDataResolved
  \/ Background
  \/ LoadGames
  \/ selectConsole
  \/ goToHomepage
  \/ performGlobalSearch
  \/ SearchResolved
  \/ clearSearch
  \/ deleteConsole
  \/ DeleteConsoleResolved
  \/ onSaveConsoleCreate
  \/ CreateConsoleResolved

SpecSearch == Init /\ [][NextSearch]_vars

\* The global search from a page of a console's games.
NextResume ==
  \/ LoadGames
  \/ nextPage
  \/ prevPage
  \/ applyFilter
  \/ performGlobalSearch
  \/ SearchResolved
  \/ clearSearch

SpecResume == InitPages /\ [][NextResume]_vars

\* Console selection, the alphabetical and the status filter, the game
\* detail and its navigation.
NextDetail ==
  \/ LoadInitialDataResolved
  \/ Background
  \/ LoadGames
  \/ selectConsole
  \/ applyFilter
  \/ applyStatusFilter
  \/ StatusFilterResolved
  \/ openGameDetail
  \/ DetailGameResolved
  \/ DetailStatusResolved
  \/ closeGameDetail
  \/ navigateToPrevGame
  \/ navigateToNextGame
  \/ NavGameResolved
  \/ NavStatusResolved

SpecDetail == Init /\ [][NextDetail]_vars

\* ------------------------------------------------------------------------
\* Properties
\* ------------------------------------------------------------------------

ActiveFilterCount ==
  (IF activeFilter # "none" THEN 1 ELSE 0)
    + (IF activeGenreFilter # <<>> THEN 1 ELSE 0)
    + (IF activeStatusFilter # "none" THEN 1 ELSE 0)

\* The last step was a handler selecting (or resetting) a filter, run to its
\* end.
FilterSelected ==
  \/ last.op \in {"applyFilter", "resetFilter", "applyGenreFilter"}
  \/ last.op = "applyStatusFilter" /\ last.pc \in {"off", "byStatus"}

\* The last step ended with renderGamesForCurrentConsole().
Rendered ==
  \/ FilterSelected
  \/ last.op \in {"nextPage", "prevPage", "renderGamesForCurrentConsole"}
  \/ last.pc = "consoleStats"
  \/ last = Step("deleteConsole", "delete", TRUE)

\* No by-status request is outstanding.
StatusSettled == Awaiting("applyStatusFilter", "byStatus") = {}

\* C1: at most one of the three filters is active once applyFilter, the
\* "All" reset, applyGenreFilter or applyStatusFilter has selected a filter
\* and no by-status request is outstanding: the other two are cleared.
C1_FiltersExclusive == (FilterSelected /\ StatusSettled) => ActiveFilterCount <= 1

\* C2: when the by-status request has succeeded and the status filter is
\* active, the displayed list is the full status subset of the server,
\* whatever the alphabetical and genre filters were.
C2_StatusSubsetShown ==
  (last = Step("applyStatusFilter", "byStatus", TRUE) /\ activeStatusFilter # "none")
    => listed = GetByStatus(currentConsoleId, activeStatusFilter)

\* C3: the list a render paginates is built from the status-filtered result
\* whenever a status filter is active and its request has resolved (also
\* when that result is empty), and from the cached list of the current
\* console only when none is active.
C3_BaseList ==
  (Rendered /\ StatusSettled) =>
    IF activeStatusFilter # "none"
      THEN listed = statusFilteredGames
      ELSE listed = RenderGames("none", <<>>, currentConsoleId, gamesByConsole,
                                activeFilter, activeGenreFilter)

\* C4: a failed games request of loadGamesForConsole leaves every cached
\* list as it was before and keeps consoleStats.
C4_FailedRefreshKeepsCache ==
  [][(last'.pc = "games" /\ ~last'.ok)
       => /\ \A c \in DOMAIN gamesByConsole :
               c \in DOMAIN gamesByConsole' /\ gamesByConsole'[c] = gamesByConsole[c]
          /\ consoleStats' = consoleStats]_vars

\* the requests that change the archive
MutatingRequests == {"add", "delete", "scan", "fetch", "update", "create"}

\* C5: a failed mutating request shows exactly one error notification.
C5_OneErrorNotice ==
  (last.pc \in MutatingRequests /\ ~last.ok) => notices.error = 1

\* C6: when a request of onSaveGameEdit fails the handler stops there: no
\* success notification is shown and no request of the handler follows.
C6_FailureStopsEdit ==
  (last.op = "onSaveGameEdit" /\ ~last.ok)
    => /\ notices.success = 0
       /\ {t \in BagToSet(tasks) : t.op = "onSaveGameEdit"} = {}

\* the cached lists without the entry of console c
WithoutEntry(gbc, c) == [k \in DOMAIN gbc \ {c} |-> gbc[k]]

\* C7: the step that completes a successful delete removes the console of
\* the request and the entry of its games together, so that no state has one without the
\* other removed, and the step that completes a failed delete changes
\* neither the consoles nor the cached lists.
C7_DeleteConsoleAtomic ==
  [][(last'.op = "deleteConsole" /\ last'.pc = "delete")
       => IF last'.ok
            THEN \E t \in Awaiting("deleteConsole", "delete") :
                   /\ consoles' = consoles \ {t.cid}
                   /\ gamesByConsole' = WithoutEntry(gamesByConsole, t.cid)
            ELSE consoles' = consoles /\ gamesByConsole' = gamesByConsole]_vars

\* C7 happens: a delete has succeeded for a console whose games had been
\* cached, while the load of another handler is still outstanding.
C7_Witness ==
  /\ last = Step("deleteConsole", "delete", TRUE)
  /\ \E c \in ConsoleIds : c \notin consoles /\ consoleStats.console = c
  /\ \E t \in BagToSet(tasks) : t.pc \in {"games", "consoleStats"}

NavCalled == last.op \in {"navigateToPrevGame", "navigateToNextGame"}
               /\ last.pc \in {"call", "blocked"}

\* C8 as stated: after a call of prev or next, currentGameIndex is a valid
\* index of currentGamesList.
C8_IndexValidAfterNav ==
  NavCalled => currentGameIndex \in 0 .. (Len(currentGamesList) - 1)

\* a step that changes no state of the controller and sends no request
NothingDone ==
  UNCHANGED <<cacheVars, filterVars, detailVars, viewVars, domVars, srvVars,
              genres, tasks, isLoading>>

\* C8: prev at an index <= 0 and next at an index >= the last one change no
\* state and send no request; any other call moves the index by exactly one;
\* the index always stays within -1 .. length - 1, where -1 says that the
\* opened game is not in currentGamesList.
C8_NavStaysInList ==
  [][/\ (NavCalled' /\ last'.op = "navigateToPrevGame")
          => IF currentGameIndex <= 0
               THEN NothingDone
               ELSE currentGameIndex' = currentGameIndex - 1
     /\ (NavCalled' /\ last'.op = "navigateToNextGame")
          => IF currentGameIndex >= Len(currentGamesList) - 1
               THEN NothingDone
               ELSE currentGameIndex' = currentGameIndex + 1
     /\ currentGameIndex' \in -1 .. (Len(currentGamesList') - 1)]_vars

\* C8 happens: prev was called at index 0 of a list of several games, and
\* did nothing.
C8_Witness ==
  /\ last = Step("navigateToPrevGame", "blocked", TRUE)
  /\ currentGameIndex = 0
  /\ Len(currentGamesList) > 1

\* C9: when openGameDetail has completed, currentGamesList is the list that
\* is displayed, status filter included, and currentGameIndex is the
\* position of the opened game in it.
C9_DetailListIsDisplayed ==
  (last.op = "openGameDetail" /\ last.pc = "gameStatus")
    => /\ currentGamesList = listed
       /\ currentGameIndex = FindIndexById(listed, currentGameDetail.id)

\* a precedes b in the order by title, case ignored, then by id
TitleThenId(a, b) ==
  \/ ComparePrimary(a.title, b.title) < 0
  \/ ComparePrimary(a.title, b.title) = 0 /\ a.id <= b.id

\* C10: the list a render displays is sorted by title, case ignored, games
\* of equal title by id, whether it comes from the cache or from the
\* by-status request.
C10_DisplayedListSorted ==
  Rendered => \A i \in 1 .. (Len(listed) - 1) : TitleThenId(listed[i], listed[i + 1])

\* C11: after every render currentPage is at least 1 and at most
\* max(1, ceil(n / 20)), n the number of games of the filtered list; the
\* cards shown are the items (p - 1) * 20 + 1 .. min(p * 20, n) of that list.
C11_PageInRange ==
  Rendered =>
    /\ currentPage >= 1
    /\ currentPage <= (IF TotalPages(Len(listed)) > 1 THEN TotalPages(Len(listed)) ELSE 1)
    /\ gameList = [i \in 1..((IF currentPage * PAGE_SIZE < Len(listed)
                                THEN currentPage * PAGE_SIZE ELSE Len(listed))
                             - (currentPage - 1) * PAGE_SIZE)
                     |-> listed[(currentPage - 1) * PAGE_SIZE + i]]

\* The cached games of the current console in title order, the list the
\* filters work on when no status filter is active.
SortedCache == SortByTitle(CachedGames(gamesByConsole, currentConsoleId))

\* The first character of the title is a digit (filter "0-9"), or the
\* letter of the filter in upper or in lower case.
FirstCharIs(title, af) ==
  /\ Len(title) > 0
  /\ IF af = "0-9" THEN title[1] \in Digits
     ELSE \E i \in DOMAIN UpperCase :
            UpperCase[i] = af /\ title[1] \in {UpperCase[i], LowerCase[i]}

\* Between two commas (or an end) of the genre string lies the tag, with
\* nothing but blanks around it.
HasTag(genre, tag) ==
  \E i \in 1..Len(genre), j \in 1..Len(genre) :
    /\ i <= j
    /\ i = 1 \/ genre[i - 1] = Comma
    /\ j = Len(genre) \/ genre[j + 1] = Comma
    /\ \A k \in i..j : genre[k] # Comma
    /\ \E a \in i..j, b \in i..j :
         /\ SubSeq(genre, a, b) = tag
         /\ \A k \in i..j : (k < a \/ k > b) => genre[k] = Blank

\* C12: with no status filter active, the alphabetical filter keeps exactly
\* the games whose title starts with a digit (filter "0-9") or with the
\* filter's letter in either case; what the genre filter then drops it
\* drops from these.
C12_AlphaKeepsFirstChar ==
  (Rendered /\ activeStatusFilter = "none" /\ activeFilter # "none"
     /\ currentConsoleId # 0)
  => LET Starts(g) == FirstCharIs(g.title, activeFilter)
         kept == SelectSeq(SortedCache, Starts)
     IN listed = IF activeGenreFilter = <<>> THEN kept
                 ELSE ApplyGenre(kept, activeGenreFilter)

\* the filter "A" keeps a title in lower case and drops another game
C12_Witness ==
  /\ last.op = "applyFilter" /\ activeFilter = "A"
  /\ activeStatusFilter = "none" /\ activeGenreFilter = <<>>
  /\ \E i \in DOMAIN listed : listed[i].title[1] = "a"
  /\ Len(listed) < Len(SortedCache)

\* C13: with no status filter active, the genre filter keeps exactly the
\* games one of whose comma-separated tags, trimmed, is the active genre;
\* a game without genre is never kept.
C13_GenreKeepsEqualTag ==
  (Rendered /\ activeStatusFilter = "none" /\ activeGenreFilter # <<>>
     /\ currentConsoleId # 0)
  => LET Tagged(g) == HasTag(g.genre, activeGenreFilter)
         base == IF activeFilter = "none" THEN SortedCache
                 ELSE ApplyAlpha(SortedCache, activeFilter)
     IN listed = SelectSeq(base, Tagged)

\* the genre "RP" keeps a game tagged " RP " and drops one tagged "R"
C13_Witness ==
  /\ last.op = "applyGenreFilter" /\ activeGenreFilter = <<"R", "P">>
  /\ activeStatusFilter = "none" /\ activeFilter = "none"
  /\ \E i \in DOMAIN listed : listed[i].id = 102
  /\ \E i \in DOMAIN SortedCache : SortedCache[i].id = 101
  /\ \A i \in DOMAIN listed : listed[i].id # 101

\* C14: rendering is idempotent: renderGamesForCurrentConsole() called
\* right after a render, with cache, filters and page as that render left
\* them, shows the same cards and buttons and changes no state, currentPage
\* included.
C14_RenderIdempotent ==
  [][(Rendered /\ last'.op = "renderGamesForCurrentConsole")
       => /\ listed' = listed /\ gameList' = gameList /\ pager' = pager
          /\ currentPage' = currentPage
          /\ UNCHANGED <<cacheVars, filterVars, detailVars, viewVars, srvVars,
                         genres, isLoading, tasks>>]_vars

\* a second render of page 3 of 45 games (5 cards), and of a page that the
\* first render had replaced by page 1
C14_Witness ==
  /\ last.op = "renderGamesForCurrentConsole"
  /\ \/ currentPage = 3 /\ Len(listed) = MaxGames /\ Len(gameList) = MaxGames - 2 * PAGE_SIZE
     \/ currentPage = 1 /\ pager = NoPager /\ currentConsoleId = 2 /\ Len(listed) <= 1

\* C15: every step that changes the selected console leaves the three
\* filters cleared, statusFilteredGames empty and currentPage 1.
C15_ConsoleChangeResets ==
  [][currentConsoleId' # currentConsoleId
       => /\ activeFilter' = "none"
          /\ activeGenreFilter' = <<>>
          /\ activeStatusFilter' = "none"
          /\ statusFilteredGames' = <<>>
          /\ currentPage' = 1]_vars

\* C16: no step of a global search changes the selected console, a filter,
\* statusFilteredGames or currentPage, and neither does a step of
\* clearSearch; when the refresh of clearSearch has ended the console view
\* shows the list it showed before.
C16_SearchKeepsFilters ==
  [][last'.op \in {"performGlobalSearch", "clearSearch"}
       => /\ UNCHANGED <<currentConsoleId, filterVars, currentPage>>
          /\ last'.pc = "consoleStats"
               => currentView' = "console" /\ listed' = listed]_vars

\* C17: clearSearch, the selection being the one the search started from,
\* returns to the view that was active when the search was submitted and
\* to the same console; a search whose request fails leaves the view as it
\* is.
C17_ClearReturnsToPriorView ==
  [][/\ (last' = Step("clearSearch", "call", TRUE)
           /\ currentConsoleId = before.console)
        => currentView' = before.view /\ currentConsoleId' = before.console
     /\ last' = Step("performGlobalSearch", "search", FALSE)
        => currentView' = currentView]_vars

\* The state goToHomepage leaves: the homepage, no console, no filter, no
\* status list, no console stats, page 1.
HomeCleared ==
  /\ currentView = "homepage"
  /\ currentConsoleId = 0
  /\ activeFilter = "none"
  /\ activeGenreFilter = <<>>
  /\ activeStatusFilter = "none"
  /\ statusFilteredGames = <<>>
  /\ consoleStats = NoStats
  /\ currentPage = 1

\* The step is the start of a handler, not the answer to a request.
UserAction(step) == step.pc \in {"call", "off"}

\* C18: goToHomepage leaves the homepage state, and once it has been left
\* (the saved view is the homepage, as goToHomepage writes it) no answer to
\* a request changes it: it stays as it is until the next user action.
C18_HomepageStays ==
  [][/\ last' = Step("goToHomepage", "call", TRUE) => HomeCleared'
     /\ (HomeCleared /\ storage = SavedState("homepage", 0) /\ ~UserAction(last'))
        => HomeCleared']_vars

\* C19: when loadInitialData of a reloaded page gets its answer (the page
\* that was left had its console list), the controller is in the console
\* view of the console that was selected before the reload if the console
\* list was loaded and holds that console, and on the homepage with no
\* console otherwise; filters and page are at their defaults.
C19_ReloadRestoresConsole ==
  [][(/\ last'.op = "loadInitialData"
      /\ before.consoles # {}
      /\ \E t \in Awaiting("loadInitialData", "consoles") : t.arg = "reload")
     => /\ IF last'.ok /\ before.console \in srvConsoles
             THEN currentView' = "console" /\ currentConsoleId' = before.console
             ELSE currentView' = "homepage" /\ currentConsoleId' = 0
        /\ activeFilter' = "none"
        /\ activeGenreFilter' = <<>>
        /\ activeStatusFilter' = "none"
        /\ statusFilteredGames' = <<>>
        /\ currentPage' = 1]_vars

\* C20: isLoading is true in every state in which a request sent through
\* apiCall is in flight, several overlapping ones included, and false in
\* every state in which none is.
C20_BusyWhileInFlight == isLoading = (InFlight > 0)


\* no character of the text is anything but a blank
Inkless(text) == \A i \in DOMAIN text : text[i] = Blank

\* the form lacks something its handler requires
LacksRequired(op, form, cid) ==
  CASE op = "onSaveConsole" ->
         Inkless(form.text) \/ (form.kind = "folder" /\ Inkless(form.more))
    [] op \in {"confirmAddGame", "confirmAddGameBulk"} ->
         cid = 0 \/ Inkless(form.text)
    [] OTHER -> Inkless(form.text)

NoticeCount(n) == n.error + n.success + n.info + n.warning

\* C21: a save of a form that lacks a required input (console name, path of
\* a folder console, game title in add or edit, bulk list, selected console
\* for an added game, cover or screenshot URL) sends no request, changes no
\* cached state and shows exactly one notice.
C21_InvalidFormSendsNothing ==
  [][(last'.form.kind # "" /\ LacksRequired(last'.op, last'.form, currentConsoleId))
     => /\ tasks' = tasks
        /\ UNCHANGED <<cacheVars, filterVars, detailVars, viewVars, srvVars>>
        /\ NoticeCount(notices') = 1]_vars

C21_Witness ==
  /\ last.op = "onSaveConsole"
  /\ last.pc = "rejected"
  /\ last.form.kind = "folder"
  /\ ~Inkless(last.form.text)
  /\ last.form.more = <<Blank>>
  /\ notices = Toast(NoNotice, "warning")


\* C22: the cached collections change only by being replaced with the
\* server's response to a re-fetch of that collection: `consoles` changes
\* only when the consoles request resolves, and then to the server's list,
\* and gamesByConsole changes only when a games request resolves; no handler
\* adds or removes a cached entity locally after a mutation.
C22_CacheOnlyRefetched ==
  [][/\ consoles' # consoles
          => /\ last' = Step("loadInitialData", "consoles", TRUE)
             /\ consoles' = srvConsoles
     /\ gamesByConsole' # gamesByConsole => last'.pc = "games"]_vars


\* the handlers that change the archive and then load the games again
RefreshingMutations ==
  {"confirmAddGame", "confirmAddGameBulk", "deleteGame", "onRescanConsole"}

\* C23: when the refresh that follows a successful mutation has got its
\* last answer, the archive stats have been requested again (the request is
\* in flight) or are those of the server, and the stats of the selected
\* console have been requested for that console.
C23_StatsRefetched ==
  [][(last'.op \in RefreshingMutations /\ last'.pc = "consoleStats")
     => /\ LoadStatsTask \in BagToSet(tasks') \/ archiveStats' = GetStats
        /\ \E t \in BagToSet(tasks) :
             t.op = last'.op /\ t.pc = "consoleStats" /\ t.cid = currentConsoleId]_vars


\* C24: navigations that overlap are not guarded: the answer to a game
\* request becomes currentGameDetail whatever the index has become since
\* the request was sent, so the answer that comes last stays.
C24_LastResponseWins ==
  [][(last'.pc = "navGame" /\ last'.ok)
     => /\ \E t \in BagToSet(tasks) :
             /\ t.op = last'.op
             /\ t.pc = "navGame"
             /\ tasks' = SuspendAll(Resume(t), {Task(t.op, "navStatus", 0, t.gid, "")})
             /\ currentGameDetail' = GameById(t.gid)
        /\ currentGameIndex' = currentGameIndex]_vars

\* no request is in flight and the detail is not the game at the index
C24_Witness ==
  /\ InFlight = 0
  /\ detailOpen
  /\ currentGameIndex + 1 \in DOMAIN currentGamesList
  /\ currentGameDetail # currentGamesList[currentGameIndex + 1]


\* C25: no failure blocks the controller: whenever no request is in flight
\* (in particular after a request has failed) the busy flag is false and the
\* user actions that the screen offers (select a console, the filters,
\* paging, search, a mutation) are enabled.
C25_FailureDoesNotBlock ==
  InFlight = 0 =>
    /\ ~isLoading
    /\ consoles # {} => ENABLED selectConsole
    /\ currentView = "console" => ENABLED applyFilter /\ ENABLED resetFilter
    /\ (currentView = "console" /\ pager.next) => ENABLED nextPage
    /\ (currentView = "console" /\ pager.prev) => ENABLED prevPage
    /\ ENABLED applyStatusFilter
    /\ ENABLED performGlobalSearch
    /\ currentConsoleId \in consoles => ENABLED onRescanConsole

\* a failed rescan has ended and nothing is in flight
C25_Witness ==
  /\ last = Step("onRescanConsole", "scan", FALSE)
  /\ InFlight = 0
  /\ currentConsoleId \in consoles


\* C26: whenever no request is in flight, consoleStats is null or the stats
\* of the console that is selected now.
C26_StatsOfCurrentConsole ==
  InFlight = 0 =>
    \/ consoleStats = NoStats
    \/ currentConsoleId # 0 /\ consoleStats = GetConsoleStats(currentConsoleId)


\* C27: whenever no request is in flight and a status filter is active,
\* statusFilteredGames is the server's list for that status and the current
\* console (or empty, after a request that failed).
C27_StatusListOfActiveStatus ==
  (InFlight = 0 /\ activeStatusFilter # "none")
    => \/ statusFilteredGames = GetByStatus(currentConsoleId, activeStatusFilter)
       \/ statusFilteredGames = <<>>


\* C28: every key of gamesByConsole is the id of a console of `consoles`:
\* no step puts an entry into the cache for a console that is not (or is no
\* longer) cached.
C28_KeysAreConsoles ==
  [][\A c \in DOMAIN gamesByConsole' \ DOMAIN gamesByConsole : c \in consoles']_vars


\* C29: the view and the selection agree in every state: the view is
\* 'homepage' only when no console is selected, and 'console' only when the
\* selected console is one of `consoles`.
C29_ViewMatchesSelection ==
  /\ currentView = "homepage" => currentConsoleId = 0
  /\ currentView = "console" => currentConsoleId \in consoles


\* C30: when the game request of a prev/next navigation has failed, the
\* detail state is as it was before the navigation: currentGameDetail is
\* still the game at currentGamesList[currentGameIndex].
C30_FailedNavigationKeepsDetail ==
  (last.pc = "navGame" /\ ~last.ok /\ InFlight = 0)
    => /\ currentGameIndex + 1 \in DOMAIN currentGamesList
       /\ currentGameDetail = currentGamesList[currentGameIndex + 1]

====
